---- MODULE Spec2Model ----
(***************************************************************************)
(* Transaction and ledger core of the inventory / invoicing application    *)
(* (src/app.py): stock derived from purchase, adjustment and invoice       *)
(* events, GST computation of create_invoice, customer balances, payments, *)
(* and the single cached SQLite connection all sessions write through.     *)
(*                                                                         *)
(* Units.  Quantities are counted in quarters of a unit, prices in         *)
(* quarters of a rupee, so qty * price is a whole number of sixteenths of  *)
(* a rupee and is exact in binary floating point, as it is in the code for *)
(* these inputs.  Amounts produced by round(x, 2) are whole paise (cents). *)
(* Every float the code passes to round() is computed here bit for bit     *)
(* (IEEE-754 binary64, round-to-nearest-even) so that round() decides a    *)
(* decimal tie the way CPython does: on the binary value of its argument.  *)
(***************************************************************************)
EXTENDS Integers, Sequences, FiniteSets, TLC

(***************************************************************************)
(* Natural numbers of arbitrary size: little-endian sequences of 15-bit    *)
(* limbs without leading zero limbs.  They carry the 53-bit significands   *)
(* of Python floats, which do not fit TLC's 32-bit integers.               *)
(***************************************************************************)
LimbBits == 3 * 5
LimbBase == 2 ^ LimbBits

RECURSIVE BNorm(_)
BNorm(x) ==
    IF x = <<>> THEN x
    ELSE IF x[Len(x)] = 0 THEN BNorm(SubSeq(x, 1, Len(x) - 1)) ELSE x

RECURSIVE BFromInt(_)
BFromInt(n) ==
    IF n = 0 THEN <<>> ELSE <<n % LimbBase>> \o BFromInt(n \div LimbBase)

RECURSIVE BToInt(_)
BToInt(x) ==
    IF x = <<>> THEN 0 ELSE Head(x) + LimbBase * BToInt(Tail(x))

RECURSIVE BAddC(_, _, _)
BAddC(x, y, c) ==
    IF x = <<>> /\ y = <<>> THEN (IF c = 0 THEN <<>> ELSE <<c>>)
    ELSE LET a == IF x = <<>> THEN 0 ELSE Head(x)
             b == IF y = <<>> THEN 0 ELSE Head(y)
             s == a + b + c
         IN  <<s % LimbBase>> \o
             BAddC(IF x = <<>> THEN x ELSE Tail(x),
                   IF y = <<>> THEN y ELSE Tail(y), s \div LimbBase)

BAdd(x, y) == BAddC(x, y, 0)

RECURSIVE BSubB(_, _, _)
BSubB(x, y, b) ==
    IF x = <<>> THEN <<>>
    ELSE LET s == Head(x) - (IF y = <<>> THEN 0 ELSE Head(y)) - b
         IN  <<s % LimbBase>> \o
             BSubB(Tail(x), IF y = <<>> THEN y ELSE Tail(y),
                   IF s < 0 THEN 1 ELSE 0)

\* x - y for x >= y
BSub(x, y) == BNorm(BSubB(x, y, 0))

RECURSIVE BMulC(_, _, _)
BMulC(x, m, c) ==
    IF x = <<>> THEN BFromInt(c)
    ELSE LET s == Head(x) * m + c
         IN  <<s % LimbBase>> \o BMulC(Tail(x), m, s \div LimbBase)

\* x * m for a small multiplier m (m < 2^15)
BMulSmall(x, m) == BNorm(BMulC(x, m, 0))

RECURSIVE BCmpFrom(_, _, _)
BCmpFrom(x, y, i) ==
    IF i = 0 THEN 0
    ELSE IF x[i] # y[i] THEN (IF x[i] < y[i] THEN -1 ELSE 1)
    ELSE BCmpFrom(x, y, i - 1)

\* -1, 0 or 1 as x < y, x = y, x > y
BCmp(x, y) ==
    IF Len(x) # Len(y) THEN (IF Len(x) < Len(y) THEN -1 ELSE 1)
    ELSE BCmpFrom(x, y, Len(x))

RECURSIVE BDivFrom(_, _, _, _)
BDivFrom(x, d, i, r) ==
    IF i = 0 THEN [q |-> <<>>, r |-> r]
    ELSE LET cur  == r * LimbBase + x[i]
             rest == BDivFrom(x, d, i - 1, cur % d)
         IN  [q |-> rest.q \o <<cur \div d>>, r |-> rest.r]

BDivNorm(qr) == [q |-> BNorm(qr.q), r |-> qr.r]

\* quotient and remainder of x by a small divisor d (d < 2^15)
BDivSmall(x, d) == BDivNorm(BDivFrom(x, d, Len(x), 0))

\* x * 2^(15 * n)
BShiftLimbs(x, n) ==
    IF x = <<>> THEN x ELSE [i \in 1..n |-> 0] \o x

RECURSIVE BitLenInt(_)
BitLenInt(n) == IF n = 0 THEN 0 ELSE 1 + BitLenInt(n \div 2)

BitLen(x) ==
    IF x = <<>> THEN 0 ELSE LimbBits * (Len(x) - 1) + BitLenInt(x[Len(x)])

\* bit i (0 = least significant) of x
Bit(x, i) ==
    LET j == (i \div LimbBits) + 1
    IN  IF j > Len(x) THEN 0 ELSE (x[j] \div (2 ^ (i % LimbBits))) % 2

\* TRUE iff some bit of x below bit k is set
LowNonZero(x, k) ==
    LET a == k \div LimbBits
        b == k % LimbBits
    IN  \/ \E j \in 1..a : j <= Len(x) /\ x[j] # 0
        \/ a + 1 <= Len(x) /\ x[a + 1] % (2 ^ b) # 0

\* x with the bits below bit k cleared
ClearLow(x, k) ==
    LET a == k \div LimbBits
        b == k % LimbBits
    IN  [j \in 1..Len(x) |->
            IF j <= a THEN 0
            ELSE IF j = a + 1 THEN x[j] - (x[j] % (2 ^ b))
            ELSE x[j]]

\* 2^k
BPow2(k) == [j \in 1..(k \div LimbBits) |-> 0] \o <<2 ^ (k % LimbBits)>>

(***************************************************************************)
(* Python floats (binary64).  A non-negative float x is held as the        *)
(* natural number x * 2^FScale; every float the model forms is a multiple  *)
(* of 2^-FScale (values lie between 2^-15 and 2^30).                       *)
(***************************************************************************)
FScaleLimbs == 5
FScale      == LimbBits * FScaleLimbs
Mantissa    == 53

\* round-to-nearest, ties-to-even, to 53 significant bits; sticky says that
\* the exact value lies strictly above x (bits were already cut off)
\* x, with k bits too many, rounded at bit k
FRoundAt(x, sticky, k) ==
    IF k <= 0 THEN x
    ELSE LET guard == Bit(x, k - 1) = 1
             rest  == sticky \/ LowNonZero(x, k - 1)
             up    == guard /\ (rest \/ Bit(x, k) = 1)
             cut   == ClearLow(x, k)
         IN  IF up THEN BAdd(cut, BPow2(k)) ELSE cut

FRound(x, sticky) == FRoundAt(x, sticky, BitLen(x) - Mantissa)

\* the float nearest to n / d: a decimal literal, or the correctly rounded
\* quotient of two floats that are themselves exact
FRoundQuotient(qr) == FRound(qr.q, qr.r # 0)

FromRatio(n, d) ==
    FRoundQuotient(BDivSmall(BShiftLimbs(BFromInt(n), FScaleLimbs), d))

\* float addition x + y of non-negative floats
FAdd(x, y) == FRound(BAdd(x, y), FALSE)

\* float subtraction x - y for x >= y >= 0
FSub(x, y) == FRound(BSub(x, y), FALSE)

\* the split without the halving: CGST would take the whole tax
FHalfWhole(x) == x

\* x / 2.0 (exact: only the exponent changes)
FHalf(x) == BDivSmall(x, 2).q

\* Python's round(x, 2) of a float x >= 0, in whole cents: the exact binary
\* value of x is rounded to the nearest multiple of 0.01; only a value that
\* is exactly half-way (in binary) goes to the even neighbour
\* the whole part of the scaled number y
Floor(y) == BToInt(SubSeq(y, FScaleLimbs + 1, Len(y)))

\* c or c + 1 cents, as x compares (cmp) with c + 1/2 cents
RoundPick(c, cmp) ==
    IF cmp < 0 THEN c
    ELSE IF cmp > 0 THEN c + 1
    ELSE IF c % 2 = 0 THEN c ELSE c + 1

\* x lies between c and c + 1 cents
RoundBetween(x, c) ==
    RoundPick(c, BCmp(BMulSmall(x, 200),
                      BShiftLimbs(BFromInt(2 * c + 1), FScaleLimbs)))

round2(x) == RoundBetween(x, Floor(BMulSmall(x, 100)))

\* the float that round(x, 2) returns when its result is c cents
FCents(c) == FromRatio(c, 100)

(***************************************************************************)
(* Bounds of the model and the inputs the handlers are tried with.         *)
(***************************************************************************)
MaxProducts    == 2      \* product rows ever inserted
MaxPurchases   == 2      \* purchase rows ever inserted
MaxAdjustments == 1      \* stock-adjustment rows ever inserted
MaxInvoices    == 2      \* invoice headers ever inserted
MaxCustomers   == 2      \* customer rows ever inserted
MaxPayments    == 2      \* payment rows ever inserted
MaxCartLen     == 2      \* lines in one session's cart

Sessions == {1, 2}

\* what the Products page is filled in with: price in quarter rupees
\* (400 = 100.00, 1 = 0.25), GST in percent, "" for no barcode
ProductA  == [name |-> "A", selling_price |-> 400, barcode |-> "b1", tax_rate |-> 18]
ProductB  == [name |-> "B", selling_price |-> 1,   barcode |-> "",   tax_rate |-> 0]
ProductA2 == [name |-> "A", selling_price |-> 4,   barcode |-> "b1", tax_rate |-> 5]

\* the product ids that can exist
ProductIds == 1..MaxProducts

SupplyTypes == {"INTRA", "INTER"}

\* the empty string in "Invoice No." makes create_invoice call next_invoice_no
NoInvoiceNo == <<>>

(***************************************************************************)
(* The database behind the cached connection.  A table is the sequence of  *)
(* its rows in rowid order; seq holds the AUTOINCREMENT counters           *)
(* (sqlite_sequence), which never go down.  None is SQL NULL / Python None. *)
(***************************************************************************)
None == 0

Tables == {"products", "purchases", "stock_adjustments", "invoices",
           "invoice_items", "sales", "customers", "payments"}

RECURSIVE Sum(_)
Sum(s) == IF s = <<>> THEN 0 ELSE Head(s) + Sum(Tail(s))

\* SELECT <f> FROM rows
Column(rows, f) == [i \in 1..Len(rows) |-> rows[i][f]]

\* SELECT * FROM rows WHERE <f> = v
Where(rows, f, v) == SelectSeq(rows, LAMBDA r : r[f] = v)

\* COALESCE(SUM(<f>), 0) FROM rows WHERE <k> = v
SumWhere(rows, f, k, v) == Sum(Column(Where(rows, k, v), f))

Ids(rows) == {rows[i].id : i \in 1..Len(rows)}

\* INSERT INTO <t> ...: the row gets the next AUTOINCREMENT id
Insert(d, t, row) ==
    [d EXCEPT ![t] = Append(@, [id |-> d.seq[t] + 1] @@ row),
              !.seq = [@ EXCEPT ![t] = @ + 1]]

\* the id the last INSERT INTO <t> gave (cur.lastrowid)
lastrowid(d, t) == d.seq[t]

\* get_conn() followed by init_db() on a fresh inventory.db
init_db ==
    [products |-> <<>>, purchases |-> <<>>, stock_adjustments |-> <<>>,
     invoices |-> <<>>, invoice_items |-> <<>>, sales |-> <<>>,
     customers |-> <<>>, payments |-> <<>>,
     settings |-> [company_name |-> "Your Company"],
     seq |-> [t \in Tables |-> 0]]

(***************************************************************************)
(* Data layer                                                              *)
(***************************************************************************)
\* get_stock: purchases - (invoice_items + sales) + adjustments
get_stock(d, product_id) ==
    LET p   == SumWhere(d.purchases, "qty", "product_id", product_id)
        s   == SumWhere(d.invoice_items, "qty", "product_id", product_id)
        s2  == SumWhere(d.sales, "qty", "product_id", product_id)
        adj == SumWhere(d.stock_adjustments, "qty_delta", "product_id", product_id)
        total_s == s + s2
    IN  p - total_s + adj

\* save_product: refuses a used barcode or name, else inserts
save_product_ok(d, rec) ==
    /\ rec.barcode = "" \/ Where(d.products, "barcode", rec.barcode) = <<>>
    /\ Where(d.products, "name", rec.name) = <<>>

save_product(d, rec) ==
    IF save_product_ok(d, rec) THEN Insert(d, "products", rec) ELSE d

\* update_product: refuses a barcode or name another product has
update_product_ok(d, product_id, rec) ==
    /\ rec.barcode = "" \/
       SelectSeq(d.products,
                 LAMBDA r : r.barcode = rec.barcode /\ r.id # product_id) = <<>>
    /\ SelectSeq(d.products,
                 LAMBDA r : r.name = rec.name /\ r.id # product_id) = <<>>

update_product(d, product_id, rec) ==
    IF update_product_ok(d, product_id, rec)
    THEN [d EXCEPT !.products =
            [i \in 1..Len(@) |->
                IF @[i].id = product_id THEN [id |-> product_id] @@ rec ELSE @[i]]]
    ELSE d

\* DELETE FROM products WHERE id = ?  with foreign_keys = ON.  invoice_items
\* declares product_id NOT NULL ... ON DELETE SET NULL, so the delete of a
\* product an invoice line refers to raises IntegrityError and changes
\* nothing; otherwise purchases, sales and stock_adjustments cascade.
delete_product_fails(d, product_id) ==
    Where(d.invoice_items, "product_id", product_id) # <<>>

delete_product(d, product_id) ==
    IF delete_product_fails(d, product_id) THEN d
    ELSE [d EXCEPT
            !.products = SelectSeq(@, LAMBDA r : r.id # product_id),
            !.purchases = SelectSeq(@, LAMBDA r : r.product_id # product_id),
            !.sales = SelectSeq(@, LAMBDA r : r.product_id # product_id),
            !.stock_adjustments =
                SelectSeq(@, LAMBDA r : r.product_id # product_id)]

\* add_purchase: one INSERT (the caller commits)
add_purchase(d, product_id, qty) ==
    Insert(d, "purchases", [product_id |-> product_id, qty |-> qty])

\* "Apply Adjustment": one INSERT
add_adjustment(d, product_id, delta) ==
    Insert(d, "stock_adjustments", [product_id |-> product_id, qty_delta |-> delta])

\* the payment booked to the customer the referenced invoice was billed to
add_payment_to_owner(d, customer_id, invoice_id, amount) ==
    Insert(d, "payments",
           [customer_id |-> IF invoice_id \in Ids(d.invoices)
                            THEN Where(d.invoices, "id", invoice_id)[1].customer_id
                            ELSE customer_id,
            invoice_id |-> invoice_id, amount |-> amount])

\* add_payment: one INSERT, no check of its arguments
add_payment(d, customer_id, invoice_id, amount) ==
    Insert(d, "payments",
           [customer_id |-> customer_id, invoice_id |-> invoice_id, amount |-> amount])

(***************************************************************************)
(* Invoice numbering                                                       *)
(***************************************************************************)
DigitChar == <<"0", "1", "2", "3", "4", "5", "6", "7", "8", "9">>

RECURSIVE DecDigits(_)
DecDigits(n) ==
    IF n < 10 THEN <<DigitChar[n + 1]>>
    ELSE DecDigits(n \div 10) \o <<DigitChar[(n % 10) + 1]>>

\* f"{count:04d}": at least four digits, zero padded
Pad4(n) == LET ds == DecDigits(n) IN [i \in 1..(4 - Len(ds)) |-> "0"] \o ds

\* next_invoice_no: "INV-" + YYYYMM + "-" + (COUNT(*) FROM invoices + 1)
next_invoice_no(d, yyyymm) ==
    <<"I", "N", "V", "-">> \o DecDigits(yyyymm) \o <<"-">> \o
    Pad4(Len(d.invoices) + 1)

(***************************************************************************)
(* create_invoice.  A cart item is [product_id, qty, selling_price,        *)
(* gst_rate].  line_base is in sixteenths of a rupee; tax_amount, the GST  *)
(* split, line_total and total_amount are in cents; subtotal is stored in  *)
(* sixteenths of a rupee and total_tax as the float the code summed.       *)
(***************************************************************************)
line_base(it) == it.selling_price * it.qty

\* the float line_base (exact: a multiple of 1/16)
line_base_f(it) == FromRatio(line_base(it), 16)

\* lines 278-304: the per-line tax and its CGST/SGST/IGST split.  The rates
\* cgst_rate, sgst_rate, igst_rate are kept in half percents; sgst_amount is
\* the float tax_amount - cgst_amount, which the code does not round.
\* lines 284-303: the item with its split, given tax_amount and cgst_amount
gst_split_item(it, supply_type, tax_amount, cgst_amount) ==
    LET rate == it.gst_rate
    IN  [tax_amount  |-> tax_amount,
         cgst_rate   |-> IF supply_type = "INTRA" THEN rate ELSE 0,
         sgst_rate   |-> IF supply_type = "INTRA" THEN rate ELSE 0,
         igst_rate   |-> IF supply_type = "INTRA" THEN 0 ELSE 2 * rate,
         cgst_amount |-> cgst_amount,
         sgst_amount |-> IF supply_type = "INTRA"
                         THEN FSub(FCents(tax_amount), FCents(cgst_amount))
                         ELSE <<>>,
         igst_amount |-> IF supply_type = "INTRA" THEN 0 ELSE tax_amount] @@ it

\* lines 284-293: cgst_amount = round(tax_amount/2.0, 2), or 0.0 inter-state
gst_split_tax(it, supply_type, tax_amount) ==
    gst_split_item(it, supply_type, tax_amount,
                   IF supply_type = "INTRA"
                   THEN round2(FHalf(FCents(tax_amount))) ELSE 0)

\* line 282: tax_amount = round(line_base * rate/100.0, 2)
gst_split(it, supply_type) ==
    gst_split_tax(it, supply_type,
                  round2(FromRatio(line_base(it) * it.gst_rate, 16 * 100)))

\* total_tax += tax_amount, in floats, from 0.0
RECURSIVE FSum(_, _)
FSum(acc, xs) == IF xs = <<>> THEN acc ELSE FSum(FAdd(acc, Head(xs)), Tail(xs))

\* line 314: line_total = round(selling_price * qty + tax_amount, 2)
line_total(it) == round2(FAdd(line_base_f(it), FCents(it.tax_amount)))

\* subtotal += line_base (exact in floats), in sixteenths of a rupee
subtotal(items) == Sum([i \in 1..Len(items) |-> line_base(items[i])])

\* total_tax += tax_amount: the float sum of the rounded line taxes
total_tax(split) ==
    FSum(<<>>, [i \in 1..Len(split) |-> FCents(split[i].tax_amount)])

\* line 305: total_amount = round(subtotal + total_tax, 2)
total_amount(items, split) ==
    round2(FAdd(FromRatio(subtotal(items), 16), total_tax(split)))

\* line 310: INSERT INTO invoices
insert_header(d, items, split, customer_id, invoice_no, supply_type) ==
    Insert(d, "invoices",
           [invoice_no   |-> invoice_no,
            customer_id  |-> customer_id,
            total_tax    |-> total_tax(split),
            subtotal     |-> subtotal(items),
            total_amount |-> total_amount(items, split),
            supply_type  |-> supply_type])

\* the header INSERT without the UNIQUE constraint on invoice_no
header_fails_not_unique(d, customer_id, invoice_no) ==
    customer_id # None /\ customer_id \notin Ids(d.customers)

\* the header INSERT raises IntegrityError: invoice_no is UNIQUE, customer_id
\* REFERENCES customers(id)
header_fails(d, customer_id, invoice_no) ==
    \/ Where(d.invoices, "invoice_no", invoice_no) # <<>>
    \/ customer_id # None /\ customer_id \notin Ids(d.customers)

\* an item INSERT raises IntegrityError: product_id REFERENCES products(id)
item_fails(d, it) == it.product_id \notin Ids(d.products)

\* lines 314-325: one pass of the loop, the invoice_items row and its
\* legacy sales row
insert_item_total(d, inv_id, invoice_no, it, lt) ==
    LET d1 == Insert(d, "invoice_items",
                     [invoice_id    |-> inv_id,
                      product_id    |-> it.product_id,
                      qty           |-> it.qty,
                      selling_price |-> it.selling_price,
                      gst_rate      |-> it.gst_rate,
                      tax_amount    |-> it.tax_amount,
                      cgst_rate     |-> it.cgst_rate,
                      sgst_rate     |-> it.sgst_rate,
                      igst_rate     |-> it.igst_rate,
                      cgst_amount   |-> it.cgst_amount,
                      sgst_amount   |-> it.sgst_amount,
                      igst_amount   |-> it.igst_amount,
                      line_total    |-> lt])
    IN  Insert(d1, "sales",
               [product_id    |-> it.product_id,
                qty           |-> it.qty,
                selling_price |-> it.selling_price,
                gst_rate      |-> it.gst_rate,
                tax_amount    |-> it.tax_amount,
                total_amount  |-> lt,
                invoice_no    |-> invoice_no])

insert_item(d, inv_id, invoice_no, it) ==
    insert_item_total(d, inv_id, invoice_no, it, line_total(it))

\* the loop of lines 313-325 until it ends or an INSERT raises
RECURSIVE insert_items(_, _, _, _)
insert_items(d, inv_id, invoice_no, its) ==
    IF its = <<>> THEN [d |-> d, ok |-> TRUE]
    ELSE IF item_fails(d, Head(its)) THEN [d |-> d, ok |-> FALSE]
    ELSE insert_items(insert_item(d, inv_id, invoice_no, Head(its)),
                      inv_id, invoice_no, Tail(its))

\* what the call ends with: err = "" means it returned (and committed);
\* otherwise the exception left the function before conn.commit(), with d
\* holding whatever was written before the failing statement
create_invoice_end(r, inv_id) ==
    [d |-> r.d, err |-> IF r.ok THEN "" ELSE "IntegrityError", inv_id |-> inv_id]

\* lines 312-326: inv_id = cur.lastrowid and the item loop on d1, the
\* database with the header inserted
create_invoice_lines(d1, invoice_no, split) ==
    create_invoice_end(insert_items(d1, lastrowid(d1, "invoices"), invoice_no, split),
                       lastrowid(d1, "invoices"))

\* lines 310-326: the header INSERT and what follows it
create_invoice_header(d, items, split, customer_id, invoice_no, supply_type) ==
    IF header_fails(d, customer_id, invoice_no)
    THEN [d |-> d, err |-> "IntegrityError", inv_id |-> None]
    ELSE create_invoice_lines(
            insert_header(d, items, split, customer_id, invoice_no, supply_type),
            invoice_no, split)

\* create_invoice as one call
create_invoice(d, items, customer_id, invoice_no_in, supply_type, yyyymm) ==
    create_invoice_header(
        d, items, [i \in 1..Len(items) |-> gst_split(items[i], supply_type)],
        customer_id,
        IF invoice_no_in = <<>> THEN next_invoice_no(d, yyyymm) ELSE invoice_no_in,
        supply_type)

(***************************************************************************)
(* Ledger reads                                                            *)
(***************************************************************************)
\* the payments taken from the customer the invoice was billed to, whatever
\* invoice they refer to
invoice_outstanding_by_customer(d, inv_id) ==
    LET rows  == Where(d.invoices, "id", inv_id)
        total == IF rows = <<>> THEN 0 ELSE rows[1].total_amount
        paid  == IF rows = <<>> THEN 0
                 ELSE SumWhere(d.payments, "amount", "customer_id",
                               rows[1].customer_id)
    IN  total - paid

\* invoice_outstanding: total_amount of the invoice (0.0 if there is none)
\* minus the payments that reference it
invoice_outstanding(d, inv_id) ==
    LET rows  == Where(d.invoices, "id", inv_id)
        total == IF rows = <<>> THEN 0 ELSE rows[1].total_amount
        paid  == SumWhere(d.payments, "amount", "invoice_id", inv_id)
    IN  total - paid

\* payments summed through the invoices they settle: on-account payments
\* (no invoice) would be left out
paid_subquery_by_invoice(d, customer_id) ==
    Sum(Column(SelectSeq(d.payments,
                         LAMBDA r : r.invoice_id \in
                             Ids(Where(d.invoices, "customer_id", customer_id))),
               "amount"))

\* (SELECT SUM(p.amount) FROM payments p WHERE p.customer_id = c.id)
paid_subquery(d, customer_id) ==
    SumWhere(d.payments, "amount", "customer_id", customer_id)

\* customer_balances: customers LEFT JOIN invoices GROUP BY c.id, with the
\* payments summed by a correlated subquery; one row per customer (the rows
\* are kept in id order, the ORDER BY only sorts the report)
customer_balances(d) ==
    [i \in 1..Len(d.customers) |->
        LET c      == d.customers[i]
            joined == Where(d.invoices, "customer_id", c.id)
            billed == Sum(Column(joined, "total_amount"))
            paid   == paid_subquery(d, c.id)
            balance == billed - paid + c.opening_balance
        IN  [id |-> c.id, credit_limit |-> c.credit_limit, billed |-> billed,
             paid |-> paid, opening_balance |-> c.opening_balance,
             balance |-> balance,
             over_limit |-> c.credit_limit > 0 /\ balance > c.credit_limit]]

(***************************************************************************)
(* The credit-limit warning of the Sales page (lines 786-798).  The limit  *)
(* and the balance are in paise, the balance column taken as the float of  *)
(* its value in paise; the cart total is the float the page sums.          *)
(***************************************************************************)
\* cart_sub = sum(qty * selling_price): exact in floats
cart_sub(cart) == FromRatio(Sum([i \in 1..Len(cart) |-> line_base(cart[i])]), 16)

\* cart_tax = sum(qty * selling_price * gst_rate / 100), not rounded
cart_tax(cart) ==
    FSum(<<>>, [i \in 1..Len(cart) |->
                    FromRatio(line_base(cart[i]) * cart[i].gst_rate, 16 * 100)])

cart_total(cart) == FAdd(cart_sub(cart), cart_tax(cart))

\* the comparison as >=, which would report a balance that just reaches the
\* limit
credit_exceeds_or_reaches(cl, curr, total) ==
    /\ cl > 0
    /\ IF curr >= 0
       THEN BCmp(FAdd(FCents(curr), total), FCents(cl)) >= 0
       ELSE /\ BCmp(total, FCents(-curr)) >= 0
            /\ BCmp(FSub(total, FCents(-curr)), FCents(cl)) >= 0

\* line 797: cl > 0 and curr + cart_total > cl
credit_exceeds(cl, curr, total) ==
    /\ cl > 0
    /\ IF curr >= 0
       THEN BCmp(FAdd(FCents(curr), total), FCents(cl)) > 0
       ELSE /\ BCmp(total, FCents(-curr)) >= 0
            /\ BCmp(FSub(total, FCents(-curr)), FCents(cl)) > 0

\* lines 787-798 for the customer chosen: TRUE when st.warning is shown
credit_warning_row(row, cart) ==
    IF row = <<>> THEN FALSE
    ELSE credit_exceeds(row[1].credit_limit, row[1].balance, cart_total(cart))

credit_warning(d, cust_sel, cart) ==
    IF cust_sel = None THEN FALSE
    ELSE credit_warning_row(Where(customer_balances(d), "id", cust_sel), cart)

(***************************************************************************)
(* State.                                                                  *)
(*   db   - the database as the one cached connection sees it (its own     *)
(*          uncommitted writes included); every session reads and writes   *)
(*          through this connection                                        *)
(*   disk - the committed database: db as of the last conn.commit()        *)
(*   cart - st.session_state.cart of each session                          *)
(*   res  - what each session's last "Create Invoice" click ended with     *)
(*   call - where each session's running create_invoice call stands, for   *)
(*          the specification that interleaves its statements              *)
(***************************************************************************)
VARIABLES db, disk, cart, res, call

vars == <<db, disk, cart, res, call>>

\* datetime.now().strftime("%Y%m")
YearMonth == 202611

NoResult == [err |-> "", inv_id |-> None]

Idle == [pc |-> "idle"]

Init ==
    /\ db = init_db
    /\ disk = init_db
    /\ cart = [s \in Sessions |-> <<>>]
    /\ res = [s \in Sessions |-> NoResult]
    /\ call = [s \in Sessions |-> Idle]

\* a handler that writes and then calls conn.commit()
Commit(d) == db' = d /\ disk' = d

\* every script run starts with main() calling init_db(), whose conn.commit()
\* (line 198) commits whatever the shared connection has pending; a handler
\* that then writes nothing, or raises before its own commit, leaves the
\* committed database at that point
InitDbCommit == disk' = db

\* a session opens or refreshes a page
OpenPage ==
    /\ InitDbCommit
    /\ UNCHANGED <<db, cart, res, call>>

(***************************************************************************)
(* Products page                                                           *)
(***************************************************************************)
\* "Save Product": save_product commits only when it inserted
SaveProduct(rec) ==
    /\ db.seq["products"] < MaxProducts
    /\ save_product_ok(db, rec)
    /\ Commit(save_product(db, rec))
    /\ UNCHANGED <<cart, res, call>>

\* "Update"
UpdateProduct(product_id, rec) ==
    /\ product_id \in Ids(db.products)
    /\ update_product_ok(db, product_id, rec)
    /\ Commit(update_product(db, product_id, rec))
    /\ UNCHANGED <<cart, res, call>>

\* "Delete": delete_product; when the DELETE raises nothing is committed
DeleteProduct(product_id) ==
    /\ product_id \in Ids(db.products)
    /\ IF delete_product_fails(db, product_id)
       THEN InitDbCommit /\ UNCHANGED db
       ELSE Commit(delete_product(db, product_id))
    /\ UNCHANGED <<cart, res, call>>

(***************************************************************************)
(* Purchases and Stock pages                                               *)
(***************************************************************************)
\* "Add Purchase": qty <= 0 is refused by the page
AddPurchase(product_id, qty) ==
    /\ db.seq["purchases"] < MaxPurchases
    /\ product_id \in Ids(db.products)
    /\ qty > 0
    /\ Commit(add_purchase(db, product_id, qty))
    /\ UNCHANGED <<cart, res, call>>

\* "Apply Adjustment"
ApplyAdjustment(product_id, delta) ==
    /\ db.seq["stock_adjustments"] < MaxAdjustments
    /\ product_id \in Ids(db.products)
    /\ Commit(add_adjustment(db, product_id, delta))
    /\ UNCHANGED <<cart, res, call>>

(***************************************************************************)
(* Sales / Invoices page                                                   *)
(***************************************************************************)
Product(d, product_id) == Where(d.products, "id", product_id)[1]

\* the product's selling_price and tax_rate, the defaults of the cart form
DefaultPrice(d, product_id) ==
    IF product_id \in Ids(d.products) THEN Product(d, product_id).selling_price ELSE 0

DefaultGst(d, product_id) ==
    IF product_id \in Ids(d.products) THEN Product(d, product_id).tax_rate ELSE 0

\* "Add to cart" with the quantity, price and GST % typed into the form:
\* refused when qty <= 0 or qty > get_stock
AddToCart(s, product_id, qty, sp, gst) ==
    /\ call[s] = Idle
    /\ Len(cart[s]) < MaxCartLen
    /\ product_id \in Ids(db.products)
    /\ qty > 0
    /\ qty <= get_stock(db, product_id)
    /\ cart' = [cart EXCEPT ![s] =
                  Append(@, [product_id |-> product_id, qty |-> qty,
                             selling_price |-> sp, gst_rate |-> gst])]
    /\ InitDbCommit
    /\ UNCHANGED <<db, res, call>>

\* barcode quick add: qty 1.0 at the product's price and GST, no stock check
BarcodeAdd(s, product_id) ==
    /\ call[s] = Idle
    /\ Len(cart[s]) < MaxCartLen
    /\ product_id \in Ids(db.products)
    /\ Product(db, product_id).barcode # ""
    /\ cart' = [cart EXCEPT ![s] =
                  Append(@, [product_id |-> product_id, qty |-> 4,
                             selling_price |-> DefaultPrice(db, product_id),
                             gst_rate |-> DefaultGst(db, product_id)])]
    /\ InitDbCommit
    /\ UNCHANGED <<db, res, call>>

\* "Clear cart"
ClearCart(s) ==
    /\ call[s] = Idle
    /\ cart[s] # <<>>
    /\ cart' = [cart EXCEPT ![s] = <<>>]
    /\ InitDbCommit
    /\ UNCHANGED <<db, res, call>>

\* lines 823-827 with r what create_invoice ended with on d0: the page shows
\* the invoice and empties the cart, or the exception ends the script run
CreateInvoiceDone(s, d0, r) ==
    /\ db' = r.d
    /\ disk' = IF r.err = "" THEN r.d ELSE d0
    /\ cart' = IF r.err = "" THEN [cart EXCEPT ![s] = <<>>] ELSE cart
    /\ res' = [res EXCEPT ![s] = [err |-> r.err, inv_id |-> r.inv_id]]

\* "Create Invoice" (lines 812-827).  cust_sel is the customer chosen (None
\* for blank); with quick, a customer name was typed instead and the
\* customer is inserted and committed first.  When create_invoice raises,
\* what it wrote stays pending on the connection and the cart is kept.
CreateInvoice(s, cust_sel, quick, supply_type, invoice_no) ==
    /\ call[s] = Idle
    /\ cart[s] # <<>>
    /\ db.seq["invoices"] < MaxInvoices
    /\ cust_sel = None \/ cust_sel \in Ids(db.customers)
    /\ quick => cust_sel = None /\ db.seq["customers"] < MaxCustomers
    /\ LET d0  == IF quick
                  THEN Insert(db, "customers",
                              [opening_balance |-> 0, credit_limit |-> 0])
                  ELSE db
           cid == IF quick THEN lastrowid(d0, "customers") ELSE cust_sel
       IN  CreateInvoiceDone(s, d0, create_invoice(d0, cart[s], cid, invoice_no,
                                                   supply_type, YearMonth))
    /\ UNCHANGED call

\* add_payment called as the function allows: for any stored customer, with
\* any stored invoice or none, whoever the invoice was billed to, and with
\* any amount (the INSERT checks the two references only)
AddPayment(customer_id, invoice_id, amount) ==
    /\ db.seq["payments"] < MaxPayments
    /\ customer_id \in Ids(db.customers)
    /\ invoice_id = None \/ invoice_id \in Ids(db.invoices)
    /\ Commit(add_payment(db, customer_id, invoice_id, amount))
    /\ UNCHANGED <<cart, res, call>>

\* "Save Payment": amount <= 0 is refused by the page; the invoice offered
\* is one of the chosen customer's, or none
SavePayment(cust, inv_sel, amt) ==
    /\ db.seq["payments"] < MaxPayments
    /\ cust \in Ids(db.customers)
    /\ inv_sel = None \/ inv_sel \in Ids(Where(db.invoices, "customer_id", cust))
    /\ amt > 0
    /\ Commit(add_payment(db, cust, inv_sel, amt))
    /\ UNCHANGED <<cart, res, call>>

\* "Receive full payment for this invoice"
ReceiveFullPayment(sel) ==
    /\ db.seq["payments"] < MaxPayments
    /\ sel \in Ids(db.invoices)
    /\ LET out == invoice_outstanding(db, sel)
           cid == Where(db.invoices, "id", sel)[1].customer_id
       IN  /\ out > 0
           /\ cid # None
           /\ Commit(add_payment(db, cid, sel, out))
    /\ UNCHANGED <<cart, res, call>>

(***************************************************************************)
(* Customers and Settings pages                                            *)
(***************************************************************************)
\* "Save Customer"
SaveCustomer(opening, limitv) ==
    /\ db.seq["customers"] < MaxCustomers
    /\ Commit(Insert(db, "customers",
                     [opening_balance |-> opening, credit_limit |-> limitv]))
    /\ UNCHANGED <<cart, res, call>>

\* "Save Company Settings": set_setting, which commits
SaveCompanySettings(name) ==
    /\ Commit([db EXCEPT !.settings.company_name = name])
    /\ UNCHANGED <<cart, res, call>>

\* one "DELETE FROM <t>" of "Erase ALL data" with foreign_keys = ON; ok is
\* FALSE when the statement raises IntegrityError (and then changes nothing)
delete_all(d, t) ==
    IF t = "products"
    THEN IF \E i \in 1..Len(d.invoice_items) :
                d.invoice_items[i].product_id \in Ids(d.products)
         THEN [d |-> d, ok |-> FALSE]
         ELSE [d |-> [d EXCEPT
                        !.products = <<>>,
                        !.purchases = SelectSeq(@, LAMBDA r : r.product_id \notin Ids(d.products)),
                        !.sales = SelectSeq(@, LAMBDA r : r.product_id \notin Ids(d.products)),
                        !.stock_adjustments =
                            SelectSeq(@, LAMBDA r : r.product_id \notin Ids(d.products))],
               ok |-> TRUE]
    ELSE IF t = "invoices"
    THEN [d |-> [d EXCEPT
                   !.invoices = <<>>,
                   !.invoice_items = SelectSeq(@, LAMBDA r : r.invoice_id \notin Ids(d.invoices)),
                   !.payments = [i \in 1..Len(@) |->
                                    IF @[i].invoice_id \in Ids(d.invoices)
                                    THEN [@[i] EXCEPT !.invoice_id = None] ELSE @[i]]],
          ok |-> TRUE]
    ELSE IF t = "customers"
    THEN [d |-> [d EXCEPT
                   !.customers = <<>>,
                   !.invoices = [i \in 1..Len(@) |->
                                    IF @[i].customer_id \in Ids(d.customers)
                                    THEN [@[i] EXCEPT !.customer_id = None] ELSE @[i]],
                   !.payments = SelectSeq(@, LAMBDA r : r.customer_id \notin Ids(d.customers))],
          ok |-> TRUE]
    ELSE [d |-> [d EXCEPT ![t] = <<>>], ok |-> TRUE]

\* the DELETE statements of lines 1069-1076, in order
EraseOrder == <<"purchases", "sales", "products", "invoices", "invoice_items",
                "payments", "stock_adjustments", "customers">>

\* run the statements until one raises
RECURSIVE erase_all(_, _)
erase_all(d, ts) ==
    IF ts = <<>> THEN [d |-> d, ok |-> TRUE]
    ELSE LET r == delete_all(d, Head(ts))
         IN  IF r.ok THEN erase_all(r.d, Tail(ts)) ELSE [d |-> d, ok |-> FALSE]

\* "Erase ALL data" with the checkbox ticked: conn.commit() only when no
\* statement raised
EraseAll ==
    /\ LET r == erase_all(db, EraseOrder)
       IN  /\ db' = r.d
           /\ disk' = IF r.ok THEN r.d ELSE db
    /\ UNCHANGED <<cart, res, call>>

\* "Erase ALL data" with the checkbox not ticked: lines 1067-1068 and
\* 1081-1082 show the warning and execute no statement
EraseAllUnticked ==
    /\ InitDbCommit
    /\ UNCHANGED <<db, cart, res, call>>

(***************************************************************************)
(* create_invoice statement by statement: the page's call of lines 812-827 *)
(* as the connection sees it when other sessions' handlers run between its *)
(* statements.  call[s] holds the local variables of the running call.     *)
(***************************************************************************)
\* the call of session s stands after the header INSERT that gave d1
CreateInvoiceHeaderDone(s, d1, invoice_no, split) ==
    /\ db' = d1
    /\ call' = [call EXCEPT ![s] =
                  [pc |-> "items", inv_id |-> lastrowid(d1, "invoices"),
                   invoice_no |-> invoice_no, rest |-> split]]
    /\ UNCHANGED res

\* line 310 with the invoice number settled
CreateInvoiceHeaderNo(s, supply_type, invoice_no, split) ==
    IF header_fails(db, None, invoice_no)
    THEN /\ res' = [res EXCEPT ![s] = [err |-> "IntegrityError", inv_id |-> None]]
         /\ UNCHANGED <<db, call>>
    ELSE CreateInvoiceHeaderDone(
            s, insert_header(db, cart[s], split, None, invoice_no, supply_type),
            invoice_no, split)

\* lines 271-312: the totals and the header INSERT
CreateInvoiceHeader(s, supply_type, invoice_no_in) ==
    /\ call[s] = Idle
    /\ cart[s] # <<>>
    /\ db.seq["invoices"] < MaxInvoices
    /\ CreateInvoiceHeaderNo(
            s, supply_type,
            IF invoice_no_in = <<>> THEN next_invoice_no(db, YearMonth)
            ELSE invoice_no_in,
            [i \in 1..Len(cart[s]) |-> gst_split(cart[s][i], supply_type)])
    /\ InitDbCommit
    /\ UNCHANGED cart

\* lines 313-325: one pass of the item loop
CreateInvoiceItem(s) ==
    /\ call[s] # Idle
    /\ call[s].rest # <<>>
    /\ LET it == Head(call[s].rest)
       IN  IF item_fails(db, it)
           THEN /\ res' = [res EXCEPT ![s] = [err |-> "IntegrityError",
                                               inv_id |-> call[s].inv_id]]
                /\ call' = [call EXCEPT ![s] = Idle]
                /\ UNCHANGED db
           ELSE /\ db' = insert_item(db, call[s].inv_id, call[s].invoice_no, it)
                /\ call' = [call EXCEPT ![s].rest = Tail(@)]
                /\ UNCHANGED res
    /\ UNCHANGED <<disk, cart>>

\* line 326 and the page's lines 824-825: conn.commit(), cart emptied
CreateInvoiceCommit(s) ==
    /\ call[s] # Idle
    /\ call[s].rest = <<>>
    /\ disk' = db
    /\ cart' = [cart EXCEPT ![s] = <<>>]
    /\ res' = [res EXCEPT ![s] = [err |-> "", inv_id |-> call[s].inv_id]]
    /\ call' = [call EXCEPT ![s] = Idle]
    /\ UNCHANGED db

(***************************************************************************)
(* "Invoice No." and "Create Invoice" as two steps of one script run: the  *)
(* page evaluates next_invoice_no() for the text input (line 810) and      *)
(* only then, when the button was clicked, calls create_invoice with what  *)
(* the input holds (line 823).  Between the two, the script runs of other  *)
(* sessions use the same connection.                                       *)
(***************************************************************************)
\* the number taken from a counter the running sessions share, so that a
\* number another run holds is not handed out again
InvoiceNoInputCounted(s, yyyymm) ==
    /\ call[s] = Idle
    /\ cart[s] # <<>>
    /\ call' = [call EXCEPT ![s] =
                  [pc |-> "numbered",
                   invoice_no |->
                       <<"I", "N", "V", "-">> \o DecDigits(yyyymm) \o <<"-">> \o
                       Pad4(Len(db.invoices) + 1 +
                            Cardinality({t \in Sessions \ {s} : call[t] # Idle}))]]
    /\ InitDbCommit
    /\ UNCHANGED <<db, cart, res>>

\* line 810: the run of session s holds the number generated in month yyyymm
InvoiceNoInput(s, yyyymm) ==
    /\ call[s] = Idle
    /\ cart[s] # <<>>
    /\ call' = [call EXCEPT ![s] =
                  [pc |-> "numbered", invoice_no |-> next_invoice_no(db, yyyymm)]]
    /\ InitDbCommit
    /\ UNCHANGED <<db, cart, res>>

\* the button was not clicked: the run ends after drawing the page
RunEnds(s) ==
    /\ call[s] # Idle
    /\ call[s].pc = "numbered"
    /\ call' = [call EXCEPT ![s] = Idle]
    /\ UNCHANGED <<db, disk, cart, res>>

\* lines 812-827 with the button clicked, no customer chosen or typed:
\* create_invoice gets the number the input holds
CreateInvoiceClicked(s, supply_type) ==
    /\ call[s] # Idle
    /\ call[s].pc = "numbered"
    /\ db.seq["invoices"] < MaxInvoices
    /\ LET r == create_invoice(db, cart[s], None, call[s].invoice_no,
                               supply_type, YearMonth)
       IN  /\ db' = r.d
           /\ disk' = IF r.err = "" THEN r.d ELSE disk
           /\ cart' = IF r.err = "" THEN [cart EXCEPT ![s] = <<>>] ELSE cart
           /\ res' = [res EXCEPT ![s] = [err |-> r.err, inv_id |-> r.inv_id]]
    /\ call' = [call EXCEPT ![s] = Idle]

(***************************************************************************)
(* The Sales page drawn for a chosen customer: the credit-limit warning is *)
(* evaluated (lines 786-798) before the cart section, and "Create Invoice" *)
(* bills the customer chosen.  call[s] holds the choice and whether the    *)
(* warning was shown.                                                      *)
(***************************************************************************)
\* lines 780-798 with cust_sel chosen in "Choose Customer"
CreditLimitWarning(s, cust_sel) ==
    /\ call[s] = Idle
    /\ cust_sel \in Ids(db.customers)
    /\ call' = [call EXCEPT ![s] =
                  [pc |-> "warned", cust_sel |-> cust_sel,
                   warning |-> credit_warning(db, cust_sel, cart[s])]]
    /\ InitDbCommit
    /\ UNCHANGED <<db, cart, res>>

\* the page was drawn and "Create Invoice" not clicked
PageDrawn(s) ==
    /\ call[s] # Idle
    /\ call[s].pc = "warned"
    /\ call' = [call EXCEPT ![s] = Idle]
    /\ UNCHANGED <<db, disk, cart, res>>

\* "Create Invoice" refused when the warning was shown: the limit as a hard
\* block
CreateInvoiceForBlocked(s, supply_type) ==
    /\ call[s] # Idle
    /\ call[s].pc = "warned"
    /\ cart[s] # <<>>
    /\ db.seq["invoices"] < MaxInvoices
    /\ LET r == IF call[s].warning
                THEN [d |-> db, err |-> "CreditLimit", inv_id |-> None]
                ELSE create_invoice(db, cart[s], call[s].cust_sel, NoInvoiceNo,
                                    supply_type, YearMonth)
       IN  /\ db' = r.d
           /\ disk' = IF r.err = "" THEN r.d ELSE disk
           /\ cart' = IF r.err = "" THEN [cart EXCEPT ![s] = <<>>] ELSE cart
           /\ res' = [res EXCEPT ![s] = [err |-> r.err, inv_id |-> r.inv_id]]
    /\ call' = [call EXCEPT ![s] = Idle]

\* lines 812-827 for the customer chosen, warning or not
CreateInvoiceFor(s, supply_type) ==
    /\ call[s] # Idle
    /\ call[s].pc = "warned"
    /\ cart[s] # <<>>
    /\ db.seq["invoices"] < MaxInvoices
    /\ LET r == create_invoice(db, cart[s], call[s].cust_sel, NoInvoiceNo,
                               supply_type, YearMonth)
       IN  /\ db' = r.d
           /\ disk' = IF r.err = "" THEN r.d ELSE disk
           /\ cart' = IF r.err = "" THEN [cart EXCEPT ![s] = <<>>] ELSE cart
           /\ res' = [res EXCEPT ![s] = [err |-> r.err, inv_id |-> r.inv_id]]
    /\ call' = [call EXCEPT ![s] = Idle]

(***************************************************************************)
(* get_stock as a call with its outcome.  The pages call it for the ids of *)
(* load_products(), a list cached for 60 seconds that another session's    *)
(* "Delete" may have outdated; call[s] holds what the call ended with.      *)
(***************************************************************************)
\* lines 213-220: four SELECTs of COALESCE(SUM(..), 0) and the return; the
\* products table is not read and no statement raises
get_stock_call(d, product_id) ==
    [err |-> "", value |-> get_stock(d, product_id)]

\* the call keeping a log of what it read: a stock adjustment of 0 is
\* stored with every read
GetStockLogged(s, product_id) ==
    /\ call[s] = Idle
    /\ call' = [call EXCEPT ![s] =
                  [pc |-> "stock", product_id |-> product_id,
                   out |-> get_stock_call(db, product_id)]]
    /\ IF product_id \in Ids(db.products)
          /\ db.seq["stock_adjustments"] < MaxAdjustments
       THEN Commit(add_adjustment(db, product_id, 0))
       ELSE InitDbCommit /\ UNCHANGED db
    /\ UNCHANGED <<cart, res>>

\* get_stock(product_id) called by a page of session s
GetStock(s, product_id) ==
    /\ call[s] = Idle
    /\ call' = [call EXCEPT ![s] =
                  [pc |-> "stock", product_id |-> product_id,
                   out |-> get_stock_call(db, product_id)]]
    /\ InitDbCommit
    /\ UNCHANGED <<db, cart, res>>

\* the page has shown the stock
StockShown(s) ==
    /\ call[s] # Idle
    /\ call[s].pc = "stock"
    /\ call' = [call EXCEPT ![s] = Idle]
    /\ UNCHANGED <<db, disk, cart, res>>

(***************************************************************************)
(* create_invoice called with a list of items as the function takes it,    *)
(* not through the cart form.                                              *)
(***************************************************************************)
\* create_invoice(items, customer_id, "") called for session s: lines 271-328
\* read each item's qty, selling_price and gst_rate and check none of them
CreateInvoiceCall(s, items, customer_id) ==
    /\ call[s] = Idle
    /\ db.seq["invoices"] < MaxInvoices
    /\ customer_id = None \/ customer_id \in Ids(db.customers)
    /\ LET r == create_invoice(db, items, customer_id, NoInvoiceNo, "INTRA",
                               YearMonth)
       IN  /\ db' = r.d
           /\ disk' = IF r.err = "" THEN r.d ELSE disk
           /\ res' = [res EXCEPT ![s] = [err |-> r.err, inv_id |-> r.inv_id]]
    /\ UNCHANGED <<cart, call>>

\* create_invoice(items, None, "", invoice_no) called for session s in the
\* month yyyymm: the number is the caller's, or next_invoice_no's if omitted
CreateInvoiceNumbered(s, items, invoice_no, yyyymm) ==
    /\ call[s] = Idle
    /\ db.seq["invoices"] < MaxInvoices
    /\ LET r == create_invoice(db, items, None, invoice_no, "INTRA", yyyymm)
       IN  /\ db' = r.d
           /\ disk' = IF r.err = "" THEN r.d ELSE disk
           /\ res' = [res EXCEPT ![s] = [err |-> r.err, inv_id |-> r.inv_id]]
    /\ UNCHANGED <<cart, call>>

(***************************************************************************)
(* The item loop of create_invoice one INSERT at a time: each pass of      *)
(* lines 313-325 executes two statements, and another session's handler    *)
(* can run on the shared connection between them.                          *)
(***************************************************************************)
\* lines 315-322: the invoice_items row of one line
insert_line_row(d, inv_id, it) ==
    Insert(d, "invoice_items",
           [invoice_id    |-> inv_id,
            product_id    |-> it.product_id,
            qty           |-> it.qty,
            selling_price |-> it.selling_price,
            gst_rate      |-> it.gst_rate,
            tax_amount    |-> it.tax_amount,
            cgst_rate     |-> it.cgst_rate,
            sgst_rate     |-> it.sgst_rate,
            igst_rate     |-> it.igst_rate,
            cgst_amount   |-> it.cgst_amount,
            sgst_amount   |-> it.sgst_amount,
            igst_amount   |-> it.igst_amount,
            line_total    |-> line_total(it)])

\* lines 324-325: the legacy sales row of the same line
insert_sales_row(d, invoice_no, it) ==
    Insert(d, "sales",
           [product_id    |-> it.product_id,
            qty           |-> it.qty,
            selling_price |-> it.selling_price,
            gst_rate      |-> it.gst_rate,
            tax_amount    |-> it.tax_amount,
            total_amount  |-> line_total(it),
            invoice_no    |-> invoice_no])

\* lines 314-322: line_total and the INSERT INTO invoice_items
CreateInvoiceLine(s) ==
    /\ call[s] # Idle
    /\ call[s].pc = "items"
    /\ call[s].rest # <<>>
    /\ LET it == Head(call[s].rest)
       IN  IF item_fails(db, it)
           THEN /\ res' = [res EXCEPT ![s] = [err |-> "IntegrityError",
                                               inv_id |-> call[s].inv_id]]
                /\ call' = [call EXCEPT ![s] = Idle]
                /\ UNCHANGED db
           ELSE /\ db' = insert_line_row(db, call[s].inv_id, it)
                /\ call' = [call EXCEPT ![s].pc = "sale"]
                /\ UNCHANGED res
    /\ UNCHANGED <<disk, cart>>

\* lines 324-325: the INSERT INTO sales of the line just written
CreateInvoiceSale(s) ==
    /\ call[s] # Idle
    /\ call[s].pc = "sale"
    /\ db' = insert_sales_row(db, call[s].invoice_no, Head(call[s].rest))
    /\ call' = [call EXCEPT ![s] = [@ EXCEPT !.pc = "items", !.rest = Tail(@)]]
    /\ UNCHANGED <<disk, cart, res>>

(***************************************************************************)
(* Specifications.  Each one runs the handlers of one part of the program  *)
(* with the inputs that part's properties are about.                       *)
(***************************************************************************)
\* Stock: one session buys, adjusts, fills the cart (form and barcode) and
\* invoices.  Quantities are in quarter units: 4 = 1.0, 8 = 2.0.
NextStock ==
    \/ \E rec \in {ProductA, ProductB} : SaveProduct(rec)
    \/ \E p \in ProductIds, q \in {0, 4, 8} : AddPurchase(p, q)
    \/ \E p \in ProductIds, q \in {-4, 4} : ApplyAdjustment(p, q)
    \/ \E p \in ProductIds, q \in {0, 4, 8} :
            AddToCart(1, p, q, DefaultPrice(db, p), DefaultGst(db, p))
    \/ \E p \in ProductIds : BarcodeAdd(1, p)
    \/ CreateInvoice(1, None, FALSE, "INTRA", NoInvoiceNo)

Spec == Init /\ [][NextStock]_vars

\* invoice numbers typed into "Invoice No.": one of the user's own, and the
\* number the page suggested when no invoice existed yet
TypedNos == {<<"X", "1">>, next_invoice_no(init_db, YearMonth)}

\* Two sessions on the one connection: both browse, fill their carts from
\* the form (product B has no barcode) and invoice, with the invoice number
\* left blank or typed in.
NextRace ==
    \/ SaveProduct(ProductB)
    \/ \E p \in ProductIds, q \in {4, 8} : AddPurchase(p, q)
    \/ \E s \in Sessions, p \in ProductIds :
            AddToCart(s, p, 4, DefaultPrice(db, p), DefaultGst(db, p))
    \/ \E s \in Sessions : ClearCart(s)
    \/ \E s \in Sessions, no \in {NoInvoiceNo} \cup TypedNos :
            CreateInvoice(s, None, FALSE, "INTRA", no)

SpecRace == Init /\ [][NextRace]_vars

\* create_invoice statement by statement in both sessions, while purchases
\* are added and the company settings saved (each of which commits).
NextTxn ==
    \/ SaveProduct(ProductA)
    \/ \E p \in ProductIds : AddPurchase(p, 4)
    \/ SaveCompanySettings("Acme")
    \/ OpenPage
    \/ \E s \in Sessions, p \in ProductIds : BarcodeAdd(s, p)
    \/ \E s \in Sessions : CreateInvoiceHeader(s, "INTRA", NoInvoiceNo)
    \/ \E s \in Sessions : CreateInvoiceItem(s)
    \/ \E s \in Sessions : CreateInvoiceCommit(s)

SpecTxn == Init /\ [][NextTxn]_vars

\* The amounts create_invoice computes: one session whose cart was filled
\* from the form with every quantity, price and GST % of the sets below
\* (product A bought with enough stock for each line), invoiced under either
\* supply type.
TaxQtys == {1, 2, 4, 8}         \* 0.25, 0.5, 1.0, 2.0 units

\* price (quarter rupees) and GST % typed into the form
TaxForms == {<<400, 18>>, <<4, 5>>, <<1, 0>>, <<1, 18>>}

TaxLines ==
    {[product_id |-> 1, qty |-> q, selling_price |-> f[1], gst_rate |-> f[2]] :
        q \in TaxQtys, f \in TaxForms}

TaxCarts == UNION {[1..n -> TaxLines] : n \in 1..MaxCartLen}

InitTax ==
    /\ db = add_purchase(save_product(init_db, ProductA), 1, 8)
    /\ disk = db
    /\ cart \in [Sessions -> TaxCarts \cup {<<>>}]
    /\ cart[1] # <<>> /\ cart[2] = <<>>
    /\ res = [s \in Sessions |-> NoResult]
    /\ call = [s \in Sessions |-> Idle]

NextTax == \E st \in SupplyTypes : CreateInvoice(1, None, FALSE, st, NoInvoiceNo)

SpecTax == InitTax /\ [][NextTax]_vars

\* The ledger: customers are saved or created with an invoice, invoices
\* of one or two barcode lines are billed to them or to nobody, payments
\* are recorded on account, against an invoice, or as full settlement.
\* Amounts are in paise: 5000 = 50.00, 10000 = 100.00.
NextLedger ==
    \/ SaveProduct(ProductA)
    \/ \E p \in ProductIds : BarcodeAdd(1, p)
    \/ \E c \in 0..MaxCustomers, quick \in BOOLEAN :
            CreateInvoice(1, c, quick, "INTRA", NoInvoiceNo)
    \/ \E o \in {0, 5000} : SaveCustomer(o, 0)
    \/ \E c \in 1..MaxCustomers, i \in 0..MaxInvoices, a \in {0, 10000} :
            SavePayment(c, i, a)
    \/ \E i \in 1..MaxInvoices : ReceiveFullPayment(i)

SpecLedger == Init /\ [][NextLedger]_vars

\* Administration next to selling: products are edited and deleted and all
\* data erased while one session fills its cart and invoices.
NextAdmin ==
    \/ SaveProduct(ProductA)
    \/ \E p \in ProductIds : UpdateProduct(p, ProductA2)
    \/ \E p \in ProductIds : DeleteProduct(p)
    \/ \E p \in ProductIds : AddPurchase(p, 4)
    \/ \E p \in ProductIds : ApplyAdjustment(p, 4)
    \/ \E p \in ProductIds : BarcodeAdd(1, p)
    \/ ClearCart(1)
    \/ CreateInvoice(1, None, FALSE, "INTRA", NoInvoiceNo)
    \/ OpenPage
    \/ EraseAll
    \/ EraseAllUnticked

SpecAdmin == Init /\ [][NextAdmin]_vars

\* Invoice numbering on a store that already holds invoices: product A was
\* saved and n invoices of one barcode line each were created with the
\* number left to the program; both sessions have scanned A into their cart
\* and draw the Sales page in any of the months below.
NumberCounts == (0..10) \cup {98, 99, 999, 9998, 9999}

YearMonths == {202611, 202612, 202701}

\* the number the i-th invoice got
NumberOf(i) == <<"I", "N", "V", "-">> \o DecDigits(YearMonth) \o <<"-">> \o Pad4(i)

\* the store with the rows of `one`, which holds one invoice, repeated n times
InvoicedRows(one, n) ==
    [one EXCEPT
        !.invoices = [i \in 1..n |->
                        [@[1] EXCEPT !.id = i, !.invoice_no = NumberOf(i)]],
        !.invoice_items = [i \in 1..n |->
                        [@[1] EXCEPT !.id = i, !.invoice_id = i]],
        !.sales = [i \in 1..n |->
                        [@[1] EXCEPT !.id = i, !.invoice_no = NumberOf(i)]],
        !.seq = [@ EXCEPT !["invoices"] = n, !["invoice_items"] = n,
                          !["sales"] = n]]

\* the cart line the barcode quick add makes of product_id
ScannedLine(d, product_id) ==
    [product_id |-> product_id, qty |-> 4,
     selling_price |-> DefaultPrice(d, product_id),
     gst_rate |-> DefaultGst(d, product_id)]

ScannedCart(d) == <<ScannedLine(d, 1)>>

InvoicedDb(base, n) ==
    InvoicedRows(create_invoice(base, ScannedCart(base), None, NoInvoiceNo,
                                "INTRA", YearMonth).d, n)

InitNumber ==
    /\ db \in {InvoicedDb(save_product(init_db, ProductA), n) : n \in NumberCounts}
    /\ disk = db
    /\ cart = [s \in Sessions |-> ScannedCart(db)]
    /\ res = [s \in Sessions |-> NoResult]
    /\ call = [s \in Sessions |-> Idle]

NextNumber ==
    \/ \E s \in Sessions, ym \in YearMonths : InvoiceNoInput(s, ym)
    \/ \E s \in Sessions : RunEnds(s)

SpecNumber == InitNumber /\ [][NextNumber]_vars

\* Two sessions draw the Sales page and click "Create Invoice" with the
\* suggested number, their script runs interleaved between line 810 and the
\* call of create_invoice.
NextNumberRace ==
    \/ SaveProduct(ProductA)
    \/ \E s \in Sessions, p \in ProductIds : BarcodeAdd(s, p)
    \/ \E s \in Sessions : ClearCart(s)
    \/ \E s \in Sessions : InvoiceNoInput(s, YearMonth)
    \/ \E s \in Sessions : RunEnds(s)
    \/ \E s \in Sessions : CreateInvoiceClicked(s, "INTRA")

SpecNumberRace == Init /\ [][NextNumberRace]_vars

\* Credit limits: product A is in the catalogue and a customer was saved
\* without a limit (0) or with a limit of 100.00 or 118.00, and has or has
\* not paid 118.00 on account; one session scans A (118.00 a line with GST)
\* into its cart, draws the Sales page for the customer and bills them.
\* Amounts are in paise.
CreditLimits == {0, 10000, 11800}

\* "Save Product", "Save Customer" with limit limitv and, with paid, "Save
\* Payment" of 118.00 for that customer
CreditDb(limitv, paid) ==
    LET d == Insert(save_product(init_db, ProductA), "customers",
                    [opening_balance |-> 0, credit_limit |-> limitv])
    IN  IF paid THEN add_payment(d, 1, None, 11800) ELSE d

InitCredit ==
    /\ db \in {CreditDb(l, paid) : l \in CreditLimits, paid \in BOOLEAN}
    /\ disk = db
    /\ cart = [s \in Sessions |-> <<>>]
    /\ res = [s \in Sessions |-> NoResult]
    /\ call = [s \in Sessions |-> Idle]

NextCredit ==
    \/ \E p \in ProductIds : BarcodeAdd(1, p)
    \/ \E c \in 1..MaxCustomers : CreditLimitWarning(1, c)
    \/ PageDrawn(1)
    \/ CreateInvoiceFor(1, "INTRA")

SpecCredit == InitCredit /\ [][NextCredit]_vars

\* Payments: product A is in the catalogue and two customers were saved;
\* create_invoice bills one line of A (118.00) to either of them, and
\* payments of 0 or 118.00 are recorded by add_payment for any customer and
\* any invoice, through "Save Payment" and as full settlement.
\* Amounts are in paise.
PayAmounts == {0, 11800}

PayCustomers == {1, 2}

\* the store after "Save Product" and two "Save Customer"
PaymentsDb ==
    Insert(Insert(save_product(init_db, ProductA), "customers",
                  [opening_balance |-> 0, credit_limit |-> 0]),
           "customers", [opening_balance |-> 0, credit_limit |-> 0])

InitPayments ==
    /\ db = PaymentsDb
    /\ disk = db
    /\ cart = [s \in Sessions |-> <<>>]
    /\ res = [s \in Sessions |-> NoResult]
    /\ call = [s \in Sessions |-> Idle]

NextPayments ==
    \/ \E c \in PayCustomers : CreateInvoiceCall(1, ScannedCart(db), c)
    \/ \E c \in PayCustomers, i \in 0..MaxInvoices, a \in PayAmounts :
            AddPayment(c, i, a)
    \/ \E c \in PayCustomers, i \in 0..MaxInvoices, a \in PayAmounts :
            SavePayment(c, i, a)
    \/ \E i \in 1..MaxInvoices : ReceiveFullPayment(i)

SpecPayments == InitPayments /\ [][NextPayments]_vars

\* Stock read while the catalogue changes: products are saved, bought,
\* adjusted and deleted, and the pages of two sessions read the stock of any
\* product id.
NextStockRead ==
    \/ \E rec \in {ProductA, ProductB} : SaveProduct(rec)
    \/ \E p \in ProductIds, q \in {4, 8} : AddPurchase(p, q)
    \/ \E p \in ProductIds : ApplyAdjustment(p, -4)
    \/ \E p \in ProductIds : DeleteProduct(p)
    \/ \E s \in Sessions, p \in ProductIds : GetStock(s, p)
    \/ \E s \in Sessions : StockShown(s)

SpecStockRead == Init /\ [][NextStockRead]_vars

\* Invoice lines: product A is bought, one session fills its cart from the
\* form (quantity 0 or 1.0) or by barcode and invoices, and create_invoice
\* is called with item lists of product A whose quantities are 0 or 1.0.
LineQtys == {0, 4}

CallLines ==
    {[product_id |-> 1, qty |-> q, selling_price |-> ProductA.selling_price,
      gst_rate |-> ProductA.tax_rate] : q \in LineQtys}

CallItems == UNION {[1..n -> CallLines] : n \in 1..MaxCartLen}

NextLines ==
    \/ SaveProduct(ProductA)
    \/ \E p \in ProductIds : AddPurchase(p, 8)
    \/ \E p \in ProductIds, q \in LineQtys :
            AddToCart(1, p, q, DefaultPrice(db, p), DefaultGst(db, p))
    \/ \E p \in ProductIds : BarcodeAdd(1, p)
    \/ ClearCart(1)
    \/ CreateInvoice(1, None, FALSE, "INTRA", NoInvoiceNo)
    \/ \E items \in CallItems : CreateInvoiceCall(1, items, None)

SpecLines == Init /\ [][NextLines]_vars

\* create_invoice one statement at a time in both sessions, while purchases
\* are added (each add_purchase commits on the shared connection).
NextMirror ==
    \/ SaveProduct(ProductA)
    \/ \E p \in ProductIds : AddPurchase(p, 4)
    \/ \E s \in Sessions, p \in ProductIds : BarcodeAdd(s, p)
    \/ \E s \in Sessions : CreateInvoiceHeader(s, "INTRA", NoInvoiceNo)
    \/ \E s \in Sessions : CreateInvoiceLine(s)
    \/ \E s \in Sessions : CreateInvoiceSale(s)
    \/ \E s \in Sessions : CreateInvoiceCommit(s)

SpecMirror == Init /\ [][NextMirror]_vars

\* One session calling create_invoice in sequence this month, with numbers
\* the caller supplies or leaves out, on a store whose earlier invoices (if
\* any) were created last month, numbered by the program or by the caller.
PastMonth == 202610

SuppliedNos == {<<"X", "1">>} \cup {NumberOf(i) : i \in 2..MaxInvoices}

PastDbs(base) ==
    {base} \cup
    {create_invoice(base, ScannedCart(base), None, no, "INTRA", PastMonth).d :
        no \in {NoInvoiceNo} \cup SuppliedNos}

InitSequence ==
    /\ db \in PastDbs(save_product(init_db, ProductA))
    /\ disk = db
    /\ cart = [s \in Sessions |-> <<>>]
    /\ res = [s \in Sessions |-> NoResult]
    /\ call = [s \in Sessions |-> Idle]

\* the item lists of the calls: one scanned line, or the same line twice
SequenceItems(d) == {ScannedCart(d), ScannedCart(d) \o ScannedCart(d)}

NextSequence ==
    \/ \E p \in ProductIds, q \in {4, 8} : AddPurchase(p, q)
    \/ \E items \in SequenceItems(db), no \in {NoInvoiceNo} \cup SuppliedNos :
            CreateInvoiceNumbered(1, items, no, YearMonth)

SpecSequence == InitSequence /\ [][NextSequence]_vars

\* One session and no other writer: products A and B are saved and each
\* has none, one or two units in stock from a purchase; session 1 fills its
\* cart from the form and by barcode and clicks "Create Invoice".
StockedQtys == {0, 4, 8}

StockedDb(qa, qb) ==
    LET d0 == save_product(save_product(init_db, ProductA), ProductB)
        d1 == IF qa = 0 THEN d0 ELSE add_purchase(d0, 1, qa)
    IN  IF qb = 0 THEN d1 ELSE add_purchase(d1, 2, qb)

InitSingle ==
    /\ db \in {StockedDb(qa, qb) : qa \in StockedQtys, qb \in StockedQtys}
    /\ disk = db
    /\ cart = [s \in Sessions |-> <<>>]
    /\ res = [s \in Sessions |-> NoResult]
    /\ call = [s \in Sessions |-> Idle]

NextSingle ==
    \/ \E p \in ProductIds, q \in {4, 8} :
            AddToCart(1, p, q, DefaultPrice(db, p), DefaultGst(db, p))
    \/ \E p \in ProductIds : BarcodeAdd(1, p)
    \/ CreateInvoice(1, None, FALSE, "INTRA", NoInvoiceNo)

SpecSingle == InitSingle /\ [][NextSingle]_vars

(***************************************************************************)
(* Properties of the stock level                                           *)
(***************************************************************************)
\* C1: for every product p, get_stock(p) equals the sum of p's purchase
\* quantities plus the sum of p's adjustment deltas minus the sum of p's
\* invoice-line quantities.
C1_StockClosedForm ==
    \A p \in Ids(db.products) :
        get_stock(db, p) =
            SumWhere(db.purchases, "qty", "product_id", p)
            + SumWhere(db.stock_adjustments, "qty_delta", "product_id", p)
            - SumWhere(db.invoice_items, "qty", "product_id", p)

\* purchases plus adjustments minus invoiced quantity of product p
Available(d, p) ==
    SumWhere(d.purchases, "qty", "product_id", p)
    + SumWhere(d.stock_adjustments, "qty_delta", "product_id", p)
    - SumWhere(d.invoice_items, "qty", "product_id", p)

\* the last "Create Invoice" click of session s stored a one-line invoice
\* for product p
InvoicedOnly(s, p) ==
    /\ res[s].err = ""
    /\ res[s].inv_id # None
    /\ LET lines == Where(db.invoice_items, "invoice_id", res[s].inv_id)
       IN  Len(lines) = 1 /\ lines[1].product_id = p

\* C2: when two sessions, each having seen enough stock when it filled its
\* cart, both invoice the same product, they cannot both succeed unless the
\* stock covers both invoices: of two invoices for the last unit only one
\* is stored, and the stock never goes below zero.
C2_LastUnitRace ==
    \A p \in Ids(db.products) :
        InvoicedOnly(1, p) /\ InvoicedOnly(2, p) => Available(db, p) >= 0

(***************************************************************************)
(* Properties of the transaction                                           *)
(***************************************************************************)
\* the lines and the legacy sales rows stored in d for the invoice header h
LinesOf(d, h) == Where(d.invoice_items, "invoice_id", h.id)

SalesOf(d, h) == Where(d.sales, "invoice_no", h.invoice_no)

\* h is stored in d together with all of its lines and one sales row per
\* line: the lines add up to the subtotal the header was written with
Whole(d, h) ==
    /\ LinesOf(d, h) # <<>>
    /\ Len(SalesOf(d, h)) = Len(LinesOf(d, h))
    /\ Sum([i \in 1..Len(LinesOf(d, h)) |-> line_base(LinesOf(d, h)[i])])
            = h.subtotal

\* C3: invoice creation is atomic: the committed database never holds an
\* invoice header without all of its lines and their sales rows, also when
\* another operation commits on the shared connection in between.
C3_AtomicInvoice ==
    \A i \in 1..Len(disk.invoices) : Whole(disk, disk.invoices[i])

\* C4: a "Create Invoice" click on a one-line cart whose quantity equals the
\* product's current stock succeeds and leaves the stock at exactly 0; one
\* whose quantity exceeds the current stock fails with InsufficientStock and
\* persists nothing.
C4_StockBoundary ==
    [][CreateInvoice(1, None, FALSE, "INTRA", NoInvoiceNo) /\ Len(cart[1]) = 1 =>
        LET it    == cart[1][1]
            stock == get_stock(db, it.product_id)
        IN  /\ it.qty = stock =>
                /\ res'[1].err = ""
                /\ get_stock(db', it.product_id) = 0
            /\ it.qty > stock =>
                /\ res'[1].err = "InsufficientStock"
                /\ db' = db
                /\ disk' = disk]_vars

(***************************************************************************)
(* Properties of the amounts                                               *)
(***************************************************************************)
\* C5: for every invoice the line totals add up to total_amount and the
\* line taxes add up to total_tax, in whole paise.
C5_TotalsAddUp ==
    \A i \in 1..Len(db.invoices) :
        LET h == db.invoices[i]
        IN  /\ Sum(Column(LinesOf(db, h), "line_total")) = h.total_amount
            /\ Sum(Column(LinesOf(db, h), "tax_amount")) = round2(h.total_tax)

\* the amounts stored on invoice line r under supply type st.  The exact
\* tax of the line is selling_price * qty * gst_rate / 16 paise; rounding to
\* 2 decimals gives a nearest whole paisa.
LineTaxOK(r, st) ==
    LET exact16 == r.selling_price * r.qty * r.gst_rate
        tax     == r.tax_amount
    IN  /\ 16 * tax - exact16 \in -8..8
        /\ st = "INTRA" =>
              /\ 2 * r.cgst_amount - tax \in -1..1
              /\ round2(r.sgst_amount) = tax - r.cgst_amount
              /\ r.igst_amount = 0
        /\ st = "INTER" =>
              /\ r.igst_amount = tax
              /\ r.cgst_amount = 0
              /\ round2(r.sgst_amount) = 0

\* the line of the example: price 100.00, GST 18 %, quantity 2
ExampleLine(r) == r.selling_price = 400 /\ r.gst_rate = 18 /\ r.qty = 8

\* C6: on every invoice line tax_amount is qty * price * rate / 100 rounded
\* to 2 decimals; intra-state, cgst_amount is half the tax rounded to 2
\* decimals, sgst_amount the rest and igst_amount 0; inter-state,
\* igst_amount is the tax and cgst_amount = sgst_amount = 0.  Price 100,
\* rate 18, quantity 2 gives tax 36.00, CGST 18.00, SGST 18.00 and line
\* total 236.00.
C6_LineTax ==
    \A i \in 1..Len(db.invoices) :
        LET h == db.invoices[i]
        IN  \A k \in 1..Len(LinesOf(db, h)) :
                LET r == LinesOf(db, h)[k]
                IN  /\ LineTaxOK(r, h.supply_type)
                    /\ ExampleLine(r) /\ h.supply_type = "INTRA" =>
                          /\ r.tax_amount = 3600
                          /\ r.cgst_amount = 1800
                          /\ round2(r.sgst_amount) = 1800
                          /\ r.line_total = 23600

\* an intra-state invoice is stored that holds the example line and a line
\* whose tax is an odd number of paise, so that its halves differ
C6_Witness ==
    \E i \in 1..Len(db.invoices) :
        LET h == db.invoices[i]
        IN  /\ h.supply_type = "INTRA"
            /\ \E k \in 1..Len(LinesOf(db, h)) : ExampleLine(LinesOf(db, h)[k])
            /\ \E k \in 1..Len(LinesOf(db, h)) :
                    LinesOf(db, h)[k].tax_amount % 2 = 1

(***************************************************************************)
(* Properties of the ledger                                                *)
(***************************************************************************)
\* C7: for every customer c, customer_balances reports
\* balance = opening_balance + the total_amount of c's invoices - the amount
\* of c's payments; one row per customer.
C7_CustomerBalance ==
    /\ Len(customer_balances(db)) = Len(db.customers)
    /\ \A k \in 1..Len(db.customers) :
          LET c == db.customers[k]
              b == customer_balances(db)[k]
          IN  /\ b.id = c.id
              /\ b.balance =
                    c.opening_balance
                    + Sum([i \in 1..Len(db.invoices) |->
                            IF db.invoices[i].customer_id = c.id
                            THEN db.invoices[i].total_amount ELSE 0])
                    - Sum([i \in 1..Len(db.payments) |->
                            IF db.payments[i].customer_id = c.id
                            THEN db.payments[i].amount ELSE 0])

\* the example: opening balance 0, one invoice of 236.00 and a payment of
\* 100.00 on account give balance 136.00, next to a second customer
C7_Witness ==
    /\ Len(db.customers) = 2
    /\ \E k \in 1..Len(db.customers) :
          LET b == customer_balances(db)[k]
          IN  /\ b.opening_balance = 0
              /\ b.billed = 23600
              /\ b.paid = 10000
              /\ b.balance = 13600
              /\ \E i \in 1..Len(db.payments) :
                    /\ db.payments[i].customer_id = b.id
                    /\ db.payments[i].invoice_id = None

(***************************************************************************)
(* Properties of invoice numbers, failures and the event tables            *)
(***************************************************************************)
\* no two invoice headers of d carry the same invoice_no
UniqueNos(d) ==
    \A i, k \in 1..Len(d.invoices) :
        d.invoices[i].invoice_no = d.invoices[k].invoice_no => i = k

\* C8: a "Create Invoice" click with a typed invoice number that an invoice
\* already carries fails and adds no rows, and no two invoices ever share
\* an invoice number.
C8_DuplicateNumber ==
    [][/\ \A s \in Sessions, no \in TypedNos :
            CreateInvoice(s, None, FALSE, "INTRA", no)
            /\ Where(db.invoices, "invoice_no", no) # <<>>
            => /\ res'[s].err = "IntegrityError"
               /\ db' = db
               /\ disk' = disk
       /\ UniqueNos(db')
       /\ UniqueNos(disk')]_vars

\* a session typed a number that was taken, was refused and still holds its
\* cart, the invoice carrying that number being the only one
C8_Witness ==
    \E s \in Sessions :
        /\ res[s].err = "IntegrityError"
        /\ cart[s] # <<>>
        /\ Len(db.invoices) = 1
        /\ db.invoices[1].invoice_no \in TypedNos

\* C9: when create_invoice fails after it has begun to write, its header,
\* lines and sales rows are neither visible on the connection nor ever
\* committed.
C9_FailureLeavesNothing ==
    \A s \in Sessions :
        res[s].err # "" /\ res[s].inv_id # None =>
            /\ res[s].inv_id \notin Ids(db.invoices)
            /\ res[s].inv_id \notin Ids(disk.invoices)
            /\ Where(db.invoice_items, "invoice_id", res[s].inv_id) = <<>>
            /\ Where(disk.invoice_items, "invoice_id", res[s].inv_id) = <<>>

\* the rows rows1 are still there, unchanged and in place, in rows2
Kept(rows1, rows2) ==
    /\ Len(rows1) <= Len(rows2)
    /\ \A i \in 1..Len(rows1) : rows2[i] = rows1[i]

EventTables == {"purchases", "stock_adjustments", "invoices", "invoice_items",
                "sales", "payments"}

\* C10: purchase, adjustment, invoice, invoice-line, sales and payment
\* records are append-only: no step other than "Erase ALL data" changes or
\* removes a stored record, update_product and delete_product included.
C10_AppendOnly ==
    [][~EraseAll =>
          \A t \in EventTables : Kept(db[t], db'[t])]_vars

\* a purchase, stock adjustment, invoice line or sales row refers to product p
Referenced(d, p) ==
    \/ Where(d.purchases, "product_id", p) # <<>>
    \/ Where(d.stock_adjustments, "product_id", p) # <<>>
    \/ Where(d.invoice_items, "product_id", p) # <<>>
    \/ Where(d.sales, "product_id", p) # <<>>

\* C11: "Delete" on a product that a purchase, stock adjustment, invoice line
\* or sales row refers to leaves the product stored.
C11_ReferencedKept ==
    [][\A p \in ProductIds :
            DeleteProduct(p) /\ Referenced(db, p) => p \in Ids(db'.products)]_vars

(***************************************************************************)
(* Properties of invoice numbering                                         *)
(***************************************************************************)
\* n written with exactly four decimal digits
FourDigits(n) == [i \in 1..4 |-> DigitChar[((n \div 10^(4 - i)) % 10) + 1]]

\* yyyymm written with six decimal digits
SixDigits(n) == [i \in 1..6 |-> DigitChar[((n \div 10^(6 - i)) % 10) + 1]]

\* C12: the number next_invoice_no generates is "INV-" YYYYMM "-" XXXX with
\* YYYYMM the month of generation and XXXX the number of stored invoices
\* plus one in exactly four zero-padded decimal digits, whatever the number
\* of stored invoices.
C12_InvoiceNoFormat ==
    [][\A s \in Sessions, ym \in YearMonths :
            InvoiceNoInput(s, ym)
            => call'[s].invoice_no =
                    <<"I", "N", "V", "-">> \o SixDigits(ym) \o <<"-">> \o
                    FourDigits(Len(db.invoices) + 1)]_vars

\* the run of session s holds a generated number that no stored invoice has
HoldsFreshNo(s) ==
    /\ call[s] # Idle
    /\ call[s].pc = "numbered"
    /\ Where(db.invoices, "invoice_no", call[s].invoice_no) = <<>>

\* C13: number generation is not collision-free: a session that generates
\* its invoice number while another session holds a generated number it has
\* not inserted yet reads the same invoice count and gets the identical
\* number.
C13_NumberCollision ==
    [][\A s \in Sessions, t \in Sessions :
            s # t /\ HoldsFreshNo(t) /\ InvoiceNoInput(s, YearMonth)
            => call'[s].invoice_no = call[t].invoice_no]_vars

\* two sessions hold the identical number, neither has inserted its invoice
C13_Witness ==
    /\ HoldsFreshNo(1)
    /\ HoldsFreshNo(2)
    /\ call[1].invoice_no = call[2].invoice_no

(***************************************************************************)
(* Properties of the credit limit                                          *)
(***************************************************************************)
\* the balance of customer c in paise: opening balance plus invoices billed
\* to c minus payments recorded for c
BalanceOf(d, c) ==
    Where(d.customers, "id", c)[1].opening_balance
    + SumWhere(d.invoices, "total_amount", "customer_id", c)
    - SumWhere(d.payments, "amount", "customer_id", c)

LimitOf(d, c) == Where(d.customers, "id", c)[1].credit_limit

\* the cart's amount with tax in 1/1600 of a rupee:
\* qty * price * (1 + rate/100) summed over the lines
Prospective(items) ==
    Sum([i \in 1..Len(items) |->
            items[i].qty * items[i].selling_price * (100 + items[i].gst_rate)])

\* balance + amount > limit, for a limit above 0
WouldExceed(d, c, items) ==
    /\ LimitOf(d, c) > 0
    /\ 16 * BalanceOf(d, c) + Prospective(items) > 16 * LimitOf(d, c)

\* C14: the warning drawn for customer c and the cart's amount a is shown
\* exactly when c's credit limit is above 0 and balance(c) + a is above the
\* limit: no warning with limit 0, none when balance + a equals the limit,
\* and a warning for balance 0, limit 100.00 and a cart of 236.00.
C14_CreditLimit ==
    [][\A s \in Sessions, c \in 1..MaxCustomers :
            CreditLimitWarning(s, c)
            => /\ call'[s].warning <=> WouldExceed(db, c, cart[s])
               /\ ( /\ BalanceOf(db, c) = 0
                    /\ LimitOf(db, c) = 10000
                    /\ Prospective(cart[s]) = 236 * 1600 ) => call'[s].warning]_vars

\* the page was drawn for a customer with balance 0 and limit 100.00 and a
\* cart of 236.00, and showed the warning
C14_Witness ==
    /\ call[1] # Idle
    /\ call[1].pc = "warned"
    /\ call[1].warning
    /\ BalanceOf(db, call[1].cust_sel) = 0
    /\ LimitOf(db, call[1].cust_sel) = 10000
    /\ Prospective(cart[1]) = 236 * 1600

\* the database with every customer's credit limit removed (0 = unlimited)
Unlimited(d) ==
    [d EXCEPT !.customers = [i \in 1..Len(@) |-> [@[i] EXCEPT !.credit_limit = 0]]]

\* C15: the credit limit is advisory: "Create Invoice" for a customer whose
\* balance plus the cart's amount is above a positive limit succeeds, and
\* stores the header, lines and sales rows it would store were the customer
\* without a limit; the customers are left as they were.
C15_LimitAdvisory ==
    [][\A s \in Sessions :
            CreateInvoiceFor(s, "INTRA")
            /\ WouldExceed(db, call[s].cust_sel, cart[s])
            => /\ res'[s].err = ""
               /\ Len(db'.invoices) = Len(db.invoices) + 1
               /\ db'.invoices[Len(db'.invoices)].customer_id = call[s].cust_sel
               /\ Len(db'.invoice_items) = Len(db.invoice_items) + Len(cart[s])
               /\ db'.customers = db.customers
               /\ disk' = db'
               /\ Unlimited(db') =
                    create_invoice(Unlimited(db), cart[s], call[s].cust_sel,
                                   NoInvoiceNo, "INTRA", YearMonth).d]_vars

\* an invoice was created that took its customer's balance above the
\* customer's positive limit
C15_Witness ==
    /\ res[1].err = ""
    /\ res[1].inv_id # None
    /\ \E i \in 1..Len(db.invoices) :
            /\ db.invoices[i].id = res[1].inv_id
            /\ db.invoices[i].customer_id # None
            /\ LimitOf(db, db.invoices[i].customer_id) > 0
            /\ BalanceOf(db, db.invoices[i].customer_id)
                    > LimitOf(db, db.invoices[i].customer_id)

(***************************************************************************)
(* Properties of payments                                                  *)
(***************************************************************************)
\* the amounts of the payments that refer to invoice i, summed
PaidFor(d, i) ==
    Sum([k \in 1..Len(d.payments) |->
            IF d.payments[k].invoice_id = i THEN d.payments[k].amount ELSE 0])

\* C16: for every stored invoice i, invoice_outstanding(i) is i's stored
\* total_amount minus the amounts of the payments that refer to i, whoever
\* they were recorded for; payments that refer to no invoice or to another
\* one do not count.
C16_InvoiceOutstanding ==
    \A k \in 1..Len(db.invoices) :
        invoice_outstanding(db, db.invoices[k].id)
            = db.invoices[k].total_amount - PaidFor(db, db.invoices[k].id)

\* an invoice has a payment that was recorded for another customer than the
\* one it was billed to, next to a payment that refers to no invoice
C16_Witness ==
    \E k \in 1..Len(db.invoices), m \in 1..Len(db.payments),
       n \in 1..Len(db.payments) :
        /\ db.invoices[k].customer_id # None
        /\ db.payments[m].invoice_id = db.invoices[k].id
        /\ db.payments[m].customer_id # db.invoices[k].customer_id
        /\ db.payments[m].amount > 0
        /\ db.payments[n].invoice_id = None
        /\ db.payments[n].amount > 0

\* the balance customer_balances reports for customer c
BalanceRead(d, c) == Where(customer_balances(d), "id", c)[1].balance

\* C17: add_payment(c, invoice, amount) shows in the next read of the
\* ledger and counts for c alone: c's balance is lower by amount, the
\* balance of every other customer (the one the invoice was billed to
\* included), the invoices and the stock of every product are as before.
C17_PaymentScope ==
    [][\A c \in PayCustomers, i \in 0..MaxInvoices, a \in PayAmounts :
            AddPayment(c, i, a)
            => /\ BalanceRead(db', c) = BalanceRead(db, c) - a
               /\ \A o \in Ids(db.customers) \ {c} :
                        BalanceRead(db', o) = BalanceRead(db, o)
               /\ Ids(db'.customers) = Ids(db.customers)
               /\ db'.invoices = db.invoices
               /\ \A p \in ProductIds : get_stock(db', p) = get_stock(db, p)]_vars

\* a customer who was billed nothing paid the invoice of another customer:
\* the payer's balance went below zero, the other still owes the invoice
C17_Witness ==
    \E k \in 1..Len(db.invoices), m \in 1..Len(db.payments) :
        /\ Len(db.payments) = 1
        /\ db.invoices[k].customer_id # None
        /\ db.payments[m].invoice_id = db.invoices[k].id
        /\ db.payments[m].customer_id # db.invoices[k].customer_id
        /\ db.payments[m].amount > 0
        /\ BalanceRead(db, db.payments[m].customer_id) = - db.payments[m].amount
        /\ BalanceRead(db, db.invoices[k].customer_id) = db.invoices[k].total_amount

(***************************************************************************)
(* Properties of get_stock and of what is accepted                         *)
(***************************************************************************)
\* C18: get_stock called with the id of a product that is not stored (never
\* created, or deleted) fails with NotFound and returns no quantity.
C18_StockNotFound ==
    [][\A s \in Sessions, p \in ProductIds :
            GetStock(s, p) /\ p \notin Ids(db.products)
            => call'[s].out.err = "NotFound"]_vars

\* C19: every stored invoice line has a quantity above 0: create_invoice
\* refuses an item list with a quantity of 0 or less before it writes, and
\* the cart form and the barcode quick add put no such line into a cart.
C19_PositiveLines ==
    \A k \in 1..Len(db.invoice_items) : db.invoice_items[k].qty > 0

\* C20: every recorded payment has an amount above 0: add_payment, "Save
\* Payment" and "Receive full payment" refuse an amount of 0 or less and
\* record nothing.
C20_PositivePayments ==
    \A k \in 1..Len(db.payments) : db.payments[k].amount > 0

(***************************************************************************)
(* Properties of rounding                                                  *)
(***************************************************************************)
\* n / d paise (n >= 0) rounded half-up to whole paise
HalfUp(n, d) == (2 * n + d) \div (2 * d)

\* the amounts of line r rounded half-up at each step: the tax from
\* qty * price * rate / 100, CGST from half the tax, the line total from
\* qty * price + tax
HalfUpLine(r, st) ==
    /\ r.tax_amount = HalfUp(r.selling_price * r.qty * r.gst_rate, 16)
    /\ st = "INTRA" => r.cgst_amount = HalfUp(r.tax_amount, 2)
    /\ r.line_total =
            HalfUp(100 * r.selling_price * r.qty + 16 * r.tax_amount, 16)

\* C21: tax_amount, cgst_amount, line_total and total_amount of every
\* stored invoice are rounded to 2 decimals half-up at each step: a value
\* that ends in exactly half a paisa goes up (a tax of 0.05 splits into
\* CGST 0.03 and SGST 0.02).
C21_HalfUp ==
    \A i \in 1..Len(db.invoices) :
        LET h == db.invoices[i]
        IN  /\ \A k \in 1..Len(LinesOf(db, h)) :
                    HalfUpLine(LinesOf(db, h)[k], h.supply_type)
            /\ h.total_amount =
                    HalfUp(100 * h.subtotal
                           + 16 * Sum(Column(LinesOf(db, h), "tax_amount")), 16)

(***************************************************************************)
(* Properties of reading the stock                                         *)
(***************************************************************************)
\* the stock of p as the stored events give it: what was bought and
\* adjusted less what the invoice lines and the sales rows took
StockOfEvents(d, p) ==
    Sum([k \in 1..Len(d.purchases) |->
            IF d.purchases[k].product_id = p THEN d.purchases[k].qty ELSE 0])
    + Sum([k \in 1..Len(d.stock_adjustments) |->
            IF d.stock_adjustments[k].product_id = p
            THEN d.stock_adjustments[k].qty_delta ELSE 0])
    - Sum([k \in 1..Len(d.invoice_items) |->
            IF d.invoice_items[k].product_id = p THEN d.invoice_items[k].qty ELSE 0])
    - Sum([k \in 1..Len(d.sales) |->
            IF d.sales[k].product_id = p THEN d.sales[k].qty ELSE 0])

\* session s holds a reading of p that no write has followed
HoldsReading(s, p) ==
    /\ call[s] # Idle
    /\ call[s].pc = "stock"
    /\ call[s].product_id = p
    /\ call[s].out.value = StockOfEvents(db, p)

Mirrors(r, l, h) ==
    /\ r.product_id = l.product_id
    /\ r.qty = l.qty
    /\ r.selling_price = l.selling_price
    /\ r.gst_rate = l.gst_rate
    /\ r.tax_amount = l.tax_amount
    /\ r.total_amount = l.line_total
    /\ r.invoice_no = h.invoice_no

\* C23: the sales read model mirrors the invoice lines: in every committed
\* state the sales rows of an invoice correspond one to one, in order, to
\* its lines, with the same product, quantity, price, rate and tax, the
\* line's total and the invoice's number.
C23_SalesMirror ==
    \A i \in 1..Len(disk.invoices) :
        LET h == disk.invoices[i]
        IN  /\ Len(SalesOf(disk, h)) = Len(LinesOf(disk, h))
            /\ \A k \in 1..Len(LinesOf(disk, h)) :
                    Mirrors(SalesOf(disk, h)[k], LinesOf(disk, h)[k], h)

\* C24: in sequential execution create_invoice with the invoice number left
\* out always succeeds: the generated number is never the number of a stored
\* invoice, also after invoices with supplied numbers were stored and after
\* the month has changed.
C24_GeneratedNoFree ==
    [][(\E items \in SequenceItems(db) :
            CreateInvoiceNumbered(1, items, NoInvoiceNo, YearMonth))
        => /\ Where(db.invoices, "invoice_no", next_invoice_no(db, YearMonth)) = <<>>
           /\ res'[1].err = ""]_vars

\* the total quantity of product p over the lines of the cart c
CartQty(c, p) == SumWhere(c, "qty", "product_id", p)

\* C25: in a single session with no other writer, the total quantity of each
\* product over all lines of a created invoice never exceeds the product's
\* stock at creation time (repeated cart lines of a product are checked
\* together), so get_stock never becomes negative through invoicing.
C25_CumulativeStock ==
    [][CreateInvoice(1, None, FALSE, "INTRA", NoInvoiceNo) /\ res'[1].err = ""
        => \A p \in Ids(db.products) :
                /\ CartQty(cart[1], p) <= get_stock(db, p)
                /\ get_stock(db', p) >= 0]_vars

\* the tables "Erase ALL data" deletes from hold no row in d
Erased(d) == \A i \in 1..Len(EraseOrder) : d[EraseOrder[i]] = <<>>

\* C26: the confirmed "Erase ALL data" is all-or-nothing from any reachable
\* state: afterwards all eight tables are empty and that is what is
\* committed, it never stops part-way with some tables cleared and others
\* not; without the confirmation checkbox nothing changes.
C26_EraseAllOrNothing ==
    [][/\ EraseAll => Erased(db') /\ disk' = db'
       /\ EraseAllUnticked => db' = db]_vars

====
